---------------------------- MODULE Spec2Model ----------------------------
(***************************************************************************)
(* SpotifyHistory (src/app.py): an uploaded listening history is read by   *)
(* pandas.read_json (whole document first, line-delimited on ValueError),  *)
(* reduced to the columns trackName / artistName / msPlayed, given a float *)
(* column minutes = msPlayed / 60000.0, and queried by total_minutes,      *)
(* top_song, top_artist and top_3_songs.                                   *)
(*                                                                         *)
(* Floating point is modelled exactly.  Every msPlayed of the model is a   *)
(* multiple of 1/6 minute, so every float64 the program computes is        *)
(*        k/6 + d / (6 * 2^ScaleBits)                                      *)
(* for integers k and (small) d: k/6 is the exact value the float stands   *)
(* for and d is its accumulated rounding error.  Round below is IEEE-754   *)
(* round-to-nearest-even to MantBits significant bits on that form.        *)
(***************************************************************************)
EXTENDS Integers, Sequences, FiniteSets, TLC

\* ------------------------------------------------------------ bounds
\* Longest event list of an uploaded document.
MaxEvents == 3
\* Largest n passed to top_3_songs(n).
MaxN == 3

\* ------------------------------------------------------------ float64
\* Significant bits of a Python float (IEEE-754 binary64).
MantBits == 53
\* Divisor of the ms -> minutes conversion.
MsPerMinute == 60000
\* The unit of d is 1/(6 * 2^ScaleBits): the ulp of the smallest non-zero
\* magnitude of the model, 1/6 (binary exponent -3), is 2^(-3 - (MantBits-1)).
ScaleBits == MantBits + 2

Double(k, d) == [k |-> k, d |-> d]
Zero == Double(0, 0)
Neg(x) == Double(-x.k, -x.d)

\* x < y on floats: the rounding errors d are far below one unit of k.
Less(x, y) == x.k < y.k \/ (x.k = y.k /\ x.d < y.d)

\* k/6 + d/(6*2^ScaleBits) >= 2^(t-3), for k > 0.
AtLeastPow2(k, d, t) == 4 * k > 3 * 2^t \/ (4 * k = 3 * 2^t /\ d >= 0)

\* t such that the value lies in [2^(t-3), 2^(t-2)): its ulp is 2^t units of d / 6.
UlpShift(k, d) ==
    CHOOSE t \in 0..(k + 1) : AtLeastPow2(k, d, t) /\ ~AtLeastPow2(k, d, t + 1)

\* Round-to-nearest, ties-to-even of the exact value k/6 + d/(6*2^ScaleBits), k > 0.
\* With n = ScaleBits - t the mantissa is q = round((k*2^n + d/2^t) / 6);
\* k*2^n = 6*q0 + rho, and 2^n mod 12 is 4 (n even) or 8 (n odd) for n >= 2.
RoundPos(k, d) ==
    LET t == UlpShift(k, d)
        n == ScaleBits - t
        p12 == IF n % 2 = 0 THEN 4 ELSE 8
        r12 == ((k % 12) * p12) % 12
        rho == r12 % 6
        q0odd == ((r12 - rho) % 12) = 6
        M == 6 * 2^t
        R == rho * 2^t + d
        dl == R \div M
        R2 == R % M
        qodd == (q0odd /\ dl % 2 = 0) \/ (~q0odd /\ dl % 2 = 1)
        up == 2 * R2 > M \/ (2 * R2 = M /\ qodd)
    IN  Double(k, M * (dl + (IF up THEN 1 ELSE 0)) - rho * 2^t)

\* The float64 nearest to the exact value.  A value with k = 0 is a difference of
\* two floats of the model that is representable as it stands.
Round(k, d) ==
    IF k = 0 THEN Double(0, d)
    ELSE IF k > 0 THEN RoundPos(k, d)
    ELSE Neg(RoundPos(-k, -d))

FAdd(x, y) == Round(x.k + y.k, x.d + y.d)
FSub(x, y) == Round(x.k - y.k, x.d - y.d)

\* float(ms) / 60000.0: one correctly rounded division.
MsToMinutes(ms) == Round((6 * ms) \div MsPerMinute, 0)

\* int(x): truncation toward zero.
IntOf(x) ==
    LET TruncPos(y) ==
            IF y.k % 6 = 0 /\ y.d < 0
            THEN (IF y.k = 0 THEN 0 ELSE y.k \div 6 - 1)
            ELSE y.k \div 6
    IN  IF x.k < 0 \/ (x.k = 0 /\ x.d < 0) THEN -TruncPos(Neg(x)) ELSE TruncPos(x)

\* ------------------------------------------------------------ JSON
\* A JSON value of an event object, or a cell of the frame read from it.
Absent == [t |-> "absent", n |-> 0, s |-> ""]
NaN == [t |-> "nan", n |-> 0, s |-> ""]
Num(n) == [t |-> "num", n |-> n, s |-> ""]
Str(s) == [t |-> "str", n |-> 0, s |-> s]

\* The names of the model in ascending (lexicographic) order.
Names == <<"A", "B", "X", "Y">>
TrackNames == {"A", "B"}
ArtistNames == {"X", "Y"}
\* msPlayed as the export writes it.
MsValues == {Num(10000), Num(40000)}
\* float("10000") = 10000.0; float("abc") raises ValueError.
NumericStrings == {"10000"}
StrToMs(s) == IF s = "10000" THEN 10000 ELSE 0

\* An event object: a key the object does not hold is Absent.
\* The events an export holds: every field present, msPlayed a number.
RegularEvents ==
    [trackName : {Str(s) : s \in TrackNames},
     artistName : {Str(s) : s \in ArtistNames},
     msPlayed : MsValues]
\* The irregular events: one regular event with a field left out or with
\* msPlayed written as text (numeric or not), the object holding msPlayed alone
\* and the object holding nothing.
IrregularEvents ==
    LET e == [trackName |-> Str("A"), artistName |-> Str("X"), msPlayed |-> Num(10000)]
    IN  {[e EXCEPT !.trackName = Absent],
         [e EXCEPT !.artistName = Absent],
         [e EXCEPT !.msPlayed = Absent],
         [e EXCEPT !.msPlayed = Str("10000")],
         [e EXCEPT !.msPlayed = Str("abc")],
         [e EXCEPT !.trackName = Absent, !.artistName = Absent],
         [trackName |-> Absent, artistName |-> Absent, msPlayed |-> Absent]}
Events == RegularEvents \cup IrregularEvents

cols == {"trackName", "artistName", "msPlayed"}
Keys(obj) == {c \in cols : obj[c] # Absent}

SeqsUpTo(S, n) == UNION {[1..m -> S] : m \in 0..n}
EventLists == SeqsUpTo(Events, MaxEvents)

\* ------------------------------------------------------------ documents
\* A document is a sequence of lines, a line a sequence of top-level JSON texts:
\* an array of objects, one object, or text that is no JSON (a cut-off value).
ArrayText(events) == [kind |-> "array", items |-> events]
ObjectText(event) == [kind |-> "object", items |-> <<event>>]
Garbage == [kind |-> "garbage", items |-> <<>>]

\* json.dumps(events): one line holding one array.
ToJsonArray(events) == << <<ArrayText(events)>> >>
\* One object per line; no line for no event.
ToJsonLines(events) == [i \in 1..Len(events) |-> <<ObjectText(events[i])>>]
\* A document cut off inside its last JSON text (nothing to cut off in no line).
Truncate(doc) ==
    [i \in 1..Len(doc) |->
        IF i = Len(doc) THEN SubSeq(doc[i], 1, Len(doc[i]) - 1) \o <<Garbage>>
        ELSE doc[i]]

\* The documents uploaded for an event list: its two serializations, each also cut
\* off, and for no event also a file of one blank line.
Documents(events) ==
    {ToJsonArray(events), ToJsonLines(events),
     Truncate(ToJsonArray(events)), Truncate(ToJsonLines(events))}
    \cup (IF events = <<>> THEN {<< <<>> >>} ELSE {})

\* ------------------------------------------------------------ read_json
RECURSIVE Concat(_)
Concat(lines) == IF lines = <<>> THEN <<>> ELSE Head(lines) \o Concat(Tail(lines))

\* DataFrame(list of dicts): a column per key of any object, NaN where an object
\* lacks the key; one row per object, also when no object has any key.
FrameOf(objs) ==
    LET columns == UNION {Keys(objs[i]) : i \in 1..Len(objs)}
    IN  [columns |-> columns,
         rows |-> [i \in 1..Len(objs) |->
                     [c \in cols |->
                        IF c \notin columns THEN Absent
                        ELSE IF objs[i][c] = Absent THEN NaN ELSE objs[i][c]]]]
EmptyFrame == [columns |-> {}, rows |-> <<>>]

Ok(frame) == [ok |-> TRUE, frame |-> frame]
ValueError == [ok |-> FALSE, frame |-> EmptyFrame]

\* pd.read_json(file_like): the text must be one JSON value.  An array of objects
\* gives a row per object.  One object is read column-wise (orient="columns"):
\* no key gives the empty frame, scalar values give "If using all scalar values,
\* you must pass an index", a ValueError.
read_json(text) ==
    LET texts == Concat(text)
    IN  IF Len(texts) # 1 \/ texts[1].kind = "garbage" THEN ValueError
        ELSE IF texts[1].kind = "array" THEN Ok(FrameOf(texts[1].items))
        ELSE IF Keys(texts[1].items[1]) = {} THEN Ok(EmptyFrame)
        ELSE ValueError

\* pd.read_json(file_like, lines=True): the non-empty lines, joined by commas in
\* brackets, are read as one array.  A line holding an array is a row of
\* positional columns, none of them an expected one.
read_json_lines(text) ==
    LET lines == SelectSeq(text, LAMBDA l : l # <<>>)
        NoKeys == [c \in cols |-> Absent]
    IN  IF \E i \in 1..Len(lines) : Len(lines[i]) # 1 \/ lines[i][1].kind = "garbage"
        THEN ValueError
        ELSE Ok(FrameOf([i \in 1..Len(lines) |->
                          IF lines[i][1].kind = "object" THEN lines[i][1].items[1]
                          ELSE NoKeys]))

\* The stream from position pos on (pos counts lines).
ReadFrom(stream, pos) == SubSeq(stream, pos + 1, Len(stream))

\* ------------------------------------------------------------ minutes
\* A cell of the float column minutes.
Cell(f) == [nan |-> FALSE, f |-> f]
NaNCell == [nan |-> TRUE, f |-> Zero]

\* Series.astype(float) fails on text that is no number.
CanFloat(v) == v.t # "str" \/ v.s \in NumericStrings
\* astype(float) / 60000.0 of one cell.
MinutesOf(v) ==
    IF v.t = "nan" THEN NaNCell
    ELSE IF v.t = "num" THEN Cell(MsToMinutes(v.n))
    ELSE Cell(MsToMinutes(StrToMs(v.s)))

\* Lines 24-30: the frame with its column minutes (0.0 without msPlayed).
WithMinutes(frame) ==
    [columns |-> frame.columns \cup {"minutes"},
     rows |-> [i \in 1..Len(frame.rows) |->
                 [trackName |-> frame.rows[i].trackName,
                  artistName |-> frame.rows[i].artistName,
                  msPlayed |-> frame.rows[i].msPlayed,
                  minutes |-> IF "msPlayed" \in frame.columns
                              THEN MinutesOf(frame.rows[i].msPlayed)
                              ELSE Cell(Zero)]]]

AstypeRaises(frame) ==
    "msPlayed" \in frame.columns
    /\ \E i \in 1..Len(frame.rows) : ~CanFloat(frame.rows[i].msPlayed)

\* ------------------------------------------------------------ sums
\* Series.sum(): NaN skipped; numpy adds fewer than 8 floats left to right.
RECURSIVE SeriesSum(_, _)
SeriesSum(cells, acc) ==
    IF cells = <<>> THEN acc
    ELSE SeriesSum(Tail(cells),
                   IF Head(cells).nan THEN acc ELSE FAdd(acc, Head(cells).f))

\* groupby(...).sum(): NaN skipped; pandas' group_sum adds with Kahan compensation:
\*   y = val - c;  t = sum + y;  c = t - sum - y;  sum = t.
RECURSIVE GroupSum(_, _, _)
GroupSum(cells, sum, c) ==
    IF cells = <<>> THEN sum
    ELSE IF Head(cells).nan THEN GroupSum(Tail(cells), sum, c)
    ELSE LET y == FSub(Head(cells).f, c)
             t == FAdd(sum, y)
         IN  GroupSum(Tail(cells), t, FSub(FSub(t, sum), y))

\* ------------------------------------------------------------ groupby
Rank(s) == CHOOSE i \in 1..Len(Names) : Names[i] = s
\* Lexicographic order of group keys (sequences of names of one length).
KeyLess(a, b) ==
    \E i \in 1..Len(a) :
        /\ Rank(a[i]) < Rank(b[i])
        /\ \A j \in 1..(i - 1) : a[j] = b[j]

RECURSIVE SortKeys(_)
SortKeys(keys) ==
    IF keys = {} THEN <<>>
    ELSE LET least == CHOOSE k \in keys : \A o \in keys \ {k} : KeyLess(k, o)
         IN  <<least>> \o SortKeys(keys \ {least})

\* A row takes part in a grouping when none of its key cells is NaN (dropna=True).
HasKey(row, by) == \A i \in 1..Len(by) : row[by[i]].t # "nan"
KeyOf(row, by) == [i \in 1..Len(by) |-> row[by[i]].s]

\* df.groupby(by, as_index=False).agg({"minutes": "sum"}) on a frame holding the
\* columns of by: one row per key, in ascending key order (sort=True).
groupby(frame, by) ==
    LET rows == frame.rows
        kept == SelectSeq(rows, LAMBDA r : HasKey(r, by))
        keys == SortKeys({KeyOf(kept[i], by) : i \in 1..Len(kept)})
        CellsOf(k) == LET g == SelectSeq(kept, LAMBDA r : KeyOf(r, by) = k)
                      IN  [i \in 1..Len(g) |-> g[i].minutes]
    IN  [i \in 1..Len(keys) |->
            [key |-> keys[i], minutes |-> GroupSum(CellsOf(keys[i]), Zero, Zero)]]

\* groupby raises KeyError for a column the frame does not hold.
GroupbyRaises(frame, by) == \E i \in 1..Len(by) : by[i] \notin frame.columns

\* sort_values("minutes", ascending=False): the default sort is quicksort, which
\* is not stable, so rows of equal minutes come out in any order.
sort_values(grouped) ==
    LET n == Len(grouped)
        perms == {p \in [1..n -> 1..n] : \A i, j \in 1..n : i # j => p[i] # p[j]}
    IN  {[i \in 1..n |-> grouped[p[i]]] : p \in
            {q \in perms : \A i, j \in 1..n :
                i < j => ~Less(grouped[q[i]].minutes, grouped[q[j]].minutes)}}

\* DataFrame.head(n).
head(rows, n) == SubSeq(rows, 1, IF n < Len(rows) THEN n ELSE Len(rows))

\* A frame counted as empty only when it has no column.
emptyNoColumns(frame) == frame.columns = {}

\* df.empty: some axis has no entry.
empty(frame) == frame.columns = {} \/ frame.rows = <<>>

\* ------------------------------------------------------------ results
NoResult == [exc |-> "", kind |-> "unset", n |-> 0, rows |-> <<>>]
RetInt(n) == [exc |-> "", kind |-> "int", n |-> n, rows |-> <<>>]
RetNone == [exc |-> "", kind |-> "None", n |-> 0, rows |-> <<>>]
RetDict(row) == [exc |-> "", kind |-> "dict", n |-> 0, rows |-> <<row>>]
RetList(rows) == [exc |-> "", kind |-> "list", n |-> 0, rows |-> rows]
Raise(e) == [exc |-> e, kind |-> "raise", n |-> 0, rows |-> <<>>]

SongDict(g) == [song |-> g.key[1], artist |-> g.key[2], mins |-> IntOf(g.minutes)]
ArtistDict(g) == [artist |-> g.key[1], mins |-> IntOf(g.minutes)]

\* ------------------------------------------------------------ state
VARIABLES
    buffer,   \* the uploaded file (analyze: stream = io.BytesIO(f.read()))
    pc,       \* "uploaded", "ready" (self.df is set), "failed" (__init__ raised)
              \* or "done" (a query was called)
    df,       \* self.df
    call,     \* the query called last and its argument
    result    \* what that call returned or raised
vars == <<buffer, pc, df, call, result>>

NoCall == [name |-> "", n |-> 0]

Init ==
    /\ \E events \in EventLists : buffer \in Documents(events)
    /\ pc = "uploaded"
    /\ df = EmptyFrame
    /\ call = NoCall
    /\ result = NoResult

\* What __init__ leaves in self.df, or the ValueError it raises (lines 14-30).
Construct(stream) ==
    LET first == read_json(ReadFrom(stream, 0))
        \* except ValueError: file_like.seek(0), then the line-delimited read
        read == IF first.ok THEN first ELSE read_json_lines(ReadFrom(stream, 0))
    IN  IF ~read.ok \/ AstypeRaises(read.frame) THEN ValueError
        ELSE Ok(WithMinutes(read.frame))

\* SpotifyHistory.__init__.
SpotifyHistory ==
    /\ pc = "uploaded"
    /\ LET read == Construct(buffer)
       IN  IF ~read.ok
           THEN /\ pc' = "failed"
                /\ result' = Raise("ValueError")
                /\ call' = [name |-> "__init__", n |-> 0]
                /\ df' = df
           ELSE /\ pc' = "ready"
                /\ df' = read.frame
                /\ UNCHANGED <<call, result>>
    /\ UNCHANGED buffer

\* total_minutes (lines 32-33).
TotalMinutesOf(frame) ==
    IntOf(SeriesSum([i \in 1..Len(frame.rows) |-> frame.rows[i].minutes], Zero))

total_minutes ==
    /\ pc = "ready"
    /\ call' = [name |-> "total_minutes", n |-> 0]
    /\ result' = RetInt(TotalMinutesOf(df))
    /\ pc' = "done"
    /\ UNCHANGED <<buffer, df>>

\* The results top_song may give on a frame (lines 35-43).
TopSongOf(frame) ==
    LET by == <<"trackName", "artistName">>
    IN  IF empty(frame) THEN {RetNone}
        ELSE IF GroupbyRaises(frame, by) THEN {Raise("KeyError")}
        ELSE IF groupby(frame, by) = <<>> THEN {Raise("IndexError")}
        ELSE {RetDict(SongDict(s[1])) : s \in sort_values(groupby(frame, by))}

top_song ==
    /\ pc = "ready"
    /\ call' = [name |-> "top_song", n |-> 0]
    /\ result' \in TopSongOf(df)
    /\ pc' = "done"
    /\ UNCHANGED <<buffer, df>>

\* The results top_artist may give on a frame (lines 45-50).
TopArtistOf(frame) ==
    LET by == <<"artistName">>
    IN  IF empty(frame) THEN {RetNone}
        ELSE IF GroupbyRaises(frame, by) THEN {Raise("KeyError")}
        ELSE IF groupby(frame, by) = <<>> THEN {Raise("IndexError")}
        ELSE {RetDict(ArtistDict(s[1])) : s \in sort_values(groupby(frame, by))}

top_artist ==
    /\ pc = "ready"
    /\ call' = [name |-> "top_artist", n |-> 0]
    /\ result' \in TopArtistOf(df)
    /\ pc' = "done"
    /\ UNCHANGED <<buffer, df>>

\* The results top_3_songs(n) may give on a frame (lines 52-60).
Top3SongsOf(frame, n) ==
    LET by == <<"trackName", "artistName">>
    IN  IF empty(frame) THEN {RetList(<<>>)}
        ELSE IF GroupbyRaises(frame, by) THEN {Raise("KeyError")}
        ELSE {RetList([i \in 1..Len(head(s, n)) |-> SongDict(s[i])]) :
                s \in sort_values(groupby(frame, by))}

top_3_songs ==
    /\ pc = "ready"
    /\ \E n \in 1..MaxN :
        /\ call' = [name |-> "top_3_songs", n |-> n]
        /\ result' \in Top3SongsOf(df, n)
    /\ pc' = "done"
    /\ UNCHANGED <<buffer, df>>

Next == SpotifyHistory \/ total_minutes \/ top_song \/ top_artist \/ top_3_songs

Spec == Init /\ [][Next]_vars

\* ------------------------------------------------------------ the claims' terms
\* The two serializations and the event list each holds.
NonEmptyLines(doc) == SelectSeq(doc, LAMBDA l : l # <<>>)
IsArrayDoc(doc) == Len(doc) = 1 /\ Len(doc[1]) = 1 /\ doc[1][1].kind = "array"
IsLinesDoc(doc) ==
    \A i \in 1..Len(doc) : doc[i] # <<>> => Len(doc[i]) = 1 /\ doc[i][1].kind = "object"
WellFormed(doc) == IsArrayDoc(doc) \/ IsLinesDoc(doc)
InputEvents(doc) ==
    IF IsArrayDoc(doc) THEN doc[1][1].items
    ELSE [i \in 1..Len(NonEmptyLines(doc)) |-> NonEmptyLines(doc)[i][1].items[1]]
\* The other serialization of the same events.
Twin(doc) ==
    IF IsArrayDoc(doc) THEN ToJsonLines(InputEvents(doc)) ELSE ToJsonArray(InputEvents(doc))

\* A play event as the specification normalises it: a missing name is the empty
\* string, a missing msPlayed is no time played.
NameOf(v) == IF v = Absent THEN "" ELSE v.s
MsOf(e) == IF e.msPlayed.t = "num" THEN e.msPlayed.n ELSE 0
\* msPlayed is a number wherever it is present.
NumericMs(es) == \A i \in 1..Len(es) : es[i].msPlayed.t \in {"num", "absent"}
\* Every event names its track and its artist.
Named(es) == \A i \in 1..Len(es) : es[i].trackName # Absent /\ es[i].artistName # Absent

\* The aggregate key of an event: by is "song" or "artist".
KeyBy(e, by) ==
    IF by = "song" THEN <<NameOf(e.trackName), NameOf(e.artistName)>>
    ELSE <<NameOf(e.artistName)>>
GroupKeysOf(es, by) == {KeyBy(es[i], by) : i \in 1..Len(es)}
\* The exact milliseconds played of the events of one key, and of all events.
RECURSIVE GroupMs(_, _, _)
GroupMs(es, key, by) ==
    IF es = <<>> THEN 0
    ELSE (IF KeyBy(Head(es), by) = key THEN MsOf(Head(es)) ELSE 0)
         + GroupMs(Tail(es), key, by)
RECURSIVE TotalMs(_)
TotalMs(es) == IF es = <<>> THEN 0 ELSE MsOf(Head(es)) + TotalMs(Tail(es))
\* Where a key occurs first in the input.
FirstIndex(es, key, by) ==
    CHOOSE i \in 1..Len(es) :
        KeyBy(es[i], by) = key /\ \A j \in 1..(i - 1) : KeyBy(es[j], by) # key

\* The grouping a query ranks, and the key of a row it returns.
GroupingOf(name) == IF name = "top_artist" THEN "artist" ELSE "song"
RowKey(row, by) == IF by = "song" THEN <<row.song, row.artist>> ELSE <<row.artist>>
RankedCall == call.name \in {"top_song", "top_artist", "top_3_songs"}

\* Every result a query may give on a frame.
ResultsOf(frame, c) ==
    CASE c.name = "total_minutes" -> {RetInt(TotalMinutesOf(frame))}
      [] c.name = "top_song" -> TopSongOf(frame)
      [] c.name = "top_artist" -> TopArtistOf(frame)
      [] OTHER -> Top3SongsOf(frame, c.n)

Min(a, b) == IF a < b THEN a ELSE b

\* ------------------------------------------------------------ claims
\* C1: total_minutes() returns the floor of the exact sum of msPlayed/60000 over
\* all events, an event without msPlayed counting 0, truncated once on the whole sum.
C1_TotalIsFloorOfExactSum ==
    (pc = "done" /\ call.name = "total_minutes" /\ NumericMs(InputEvents(buffer)))
        => result = RetInt(TotalMs(InputEvents(buffer)) \div MsPerMinute)

\* C2: on a non-empty event sequence top_song() and top_artist() return a group of
\* the input whose summed minutes are at least those of every other group.
C2_TopIsMaximal ==
    LET es == InputEvents(buffer)
        by == GroupingOf(call.name)
    IN  (pc = "done" /\ call.name \in {"top_song", "top_artist"}
            /\ es # <<>> /\ NumericMs(es))
        => /\ result.kind = "dict"
           /\ RowKey(result.rows[1], by) \in GroupKeysOf(es, by)
           /\ \A o \in GroupKeysOf(es, by) :
                GroupMs(es, RowKey(result.rows[1], by), by) >= GroupMs(es, o, by)

\* C3: top_3_songs(n), n >= 1, returns exactly min(n, number of distinct
\* (trackName, artistName) groups) rows, each a distinct group, ordered by summed
\* minutes descending, and no group left out has more minutes than a group returned.
C3_TopNRows ==
    LET es == InputEvents(buffer)
        keys == GroupKeysOf(es, "song")
        rows == result.rows
        returned == {RowKey(rows[i], "song") : i \in 1..Len(rows)}
    IN  (pc = "done" /\ call.name = "top_3_songs" /\ NumericMs(es))
        => /\ result.kind = "list"
           /\ Len(rows) = Min(call.n, Cardinality(keys))
           /\ Cardinality(returned) = Len(rows)
           /\ returned \subseteq keys
           /\ \A i, j \in 1..Len(rows) :
                i < j => GroupMs(es, RowKey(rows[i], "song"), "song")
                            >= GroupMs(es, RowKey(rows[j], "song"), "song")
           /\ \A o \in keys \ returned : \A k \in returned :
                GroupMs(es, o, "song") <= GroupMs(es, k, "song")

\* C4: in every row top_song, top_artist and top_3_songs return, the minute count
\* is the floor of the exact sum of duration over all input events of the row's key.
C4_MinsIsFloorOfGroupSum ==
    LET es == InputEvents(buffer)
        by == GroupingOf(call.name)
    IN  (pc = "done" /\ RankedCall /\ NumericMs(es))
        => \A i \in 1..Len(result.rows) :
                result.rows[i].mins =
                    GroupMs(es, RowKey(result.rows[i], by), by) \div MsPerMinute

\* C5: among groups that tie on summed minutes, top_song and top_artist return the
\* one whose first event comes earliest in the input, and top_3_songs lists tied
\* groups, also at the cutoff n, in the order of their first events.  Stated on
\* documents whose events all name track and artist.
C5_TiesInInputOrder ==
    LET es == InputEvents(buffer)
        by == GroupingOf(call.name)
        rows == result.rows
        returned == {RowKey(rows[i], by) : i \in 1..Len(rows)}
        Tied(a, b) == GroupMs(es, a, by) = GroupMs(es, b, by)
        First(k) == FirstIndex(es, k, by)
    IN  (pc = "done" /\ RankedCall /\ result.exc = "" /\ NumericMs(es) /\ Named(es))
        => /\ \A i, j \in 1..Len(rows) :
                (i < j /\ Tied(RowKey(rows[i], by), RowKey(rows[j], by)))
                    => First(RowKey(rows[i], by)) < First(RowKey(rows[j], by))
           /\ \A k \in returned : \A o \in GroupKeysOf(es, by) \ returned :
                Tied(k, o) => First(k) < First(o)

\* C6: an event lacking trackName or artistName is not dropped: with the missing
\* name read as the empty string it is grouped like any other, so the groups
\* top_3_songs ranks are exactly the distinct keys of all input events.  Stated on
\* calls that return, with n no less than the number of keys.
C6_MissingNamesGrouped ==
    LET es == InputEvents(buffer)
        keys == GroupKeysOf(es, "song")
    IN  (pc = "done" /\ call.name = "top_3_songs" /\ result.exc = ""
            /\ NumericMs(es) /\ call.n >= Cardinality(keys))
        => {RowKey(result.rows[i], "song") : i \in 1..Len(result.rows)} = keys

\* C7: parsing fails, with the one error of malformed input, exactly when the
\* buffer is neither a JSON array of objects nor line-delimited JSON objects or
\* some event holds an msPlayed that is not a number (text is never coerced).
C7_ParseFailsIffMalformed ==
    pc # "uploaded"
        => ((pc = "failed" /\ result = Raise("ValueError"))
            <=> (~WellFormed(buffer) \/ ~NumericMs(InputEvents(buffer))))

\* C8: no query raises on a parsed sequence, whatever fields its events lack.
C8_QueriesNeverRaise == pc = "done" => result.exc = ""

\* C9: an input of zero events (an empty JSON array, or no non-empty line) parses,
\* and gives total_minutes 0, top_song None, top_artist None and top_3_songs(n) []
\* for every n.
ZeroEvents(doc) == WellFormed(doc) /\ InputEvents(doc) = <<>>
C9_EmptyInput ==
    ZeroEvents(buffer)
        => /\ pc # "failed"
           /\ pc = "done" =>
                result = CASE call.name = "total_minutes" -> RetInt(0)
                           [] call.name = "top_song" -> RetNone
                           [] call.name = "top_artist" -> RetNone
                           [] OTHER -> RetList(<<>>)
\* An empty upload (no line at all) queried for its top songs.
C9_Witness ==
    /\ pc = "done" /\ buffer = ToJsonLines(<<>>)
    /\ call = [name |-> "top_3_songs", n |-> MaxN] /\ result = RetList(<<>>)

\* C10: the JSON array and the line-delimited serialization of the same events
\* give the same outcome of parsing and the same result of every query.
C10_SerializationsAgree ==
    LET other == Construct(Twin(buffer))
    IN  WellFormed(buffer)
        => /\ pc = "failed" => ~other.ok
           /\ pc \in {"ready", "done"} => other.ok
           /\ pc = "done" => result \in ResultsOf(other.frame, call)

\* ------------------------------------------------------------ what the failures rest on
\* C2, C3, C6 and C8 hold of the queries on documents whose events all name track
\* and artist: they fail only where a name is missing.
NamedInput == pc = "done" /\ Named(InputEvents(buffer))
C2_OnNamedEvents == NamedInput => C2_TopIsMaximal
C3_OnNamedEvents == NamedInput => C3_TopNRows
C6_OnNamedEvents == NamedInput => C6_MissingNamesGrouped
C8_OnNamedEvents == NamedInput => C8_QueriesNeverRaise
\* C10 holds of every event list but the one holding a single object without keys.
C10_ButOneEmptyObject ==
    (WellFormed(buffer)
        /\ InputEvents(buffer)
            # <<[trackName |-> Absent, artistName |-> Absent, msPlayed |-> Absent]>>)
        => C10_SerializationsAgree

=============================================================================
